---- MODULE Spec2Model ----
(***************************************************************************)
(* Model of pycorr/pair_counter.py: construction and validation of a       *)
(* two-point counter (BaseTwoPointCounterEngine.__init__ reached through   *)
(* the TwoPointCounter factory), the analytic counter, rebin,             *)
(* normalized_wcounts and the persisted state (__getstate__).              *)
(*                                                                         *)
(* Conventions.                                                            *)
(*  - Python None of an optional argument is the empty tuple <<>>, a given *)
(*    value x is <<x>>.  None of a string option is the string "None".     *)
(*  - A raised exception is the name of its class in the field err; ""     *)
(*    means no exception.  PairCounterError is the configuration error.    *)
(*  - Numbers are exact rationals <<num, den>>; den = 0 is nan (num = 0)   *)
(*    or inf.  An array is [shape, data, pi]: data in row-major order, the *)
(*    value of an element being data[k] * Pi^pi.                           *)
(*  - Edge values are integers in units of 2*atol = 2e-8, so that the      *)
(*    tolerance of numpy.allclose is within reach of small integers.       *)
(***************************************************************************)
EXTENDS Integers, Sequences, FiniteSets, TLC

\* ------------------------------------------------------------------ bounds
MaxN == 2
MaxW == 2
MaxEdge == 4
MaxCount == 1
MaxBox == 2

\* 1/rtol of numpy.allclose (rtol = 1e-05)
RtolInv == 100000
\* int(os.getenv('OMP_NUM_THREADS', '1')) with the variable unset
OMP_NUM_THREADS == 1

\* ----------------------------------------------------------------- helpers
None == <<>>
Some(x) == <<x>>
IsNone(o) == o = <<>>
Get(o) == o[1]

Ok(v) == [err |-> "", val |-> v]
Raise(e) == [err |-> e, val |-> <<>>]

Abs(x) == IF x < 0 THEN -x ELSE x

RECURSIVE Gcd(_, _)
Gcd(a, b) == IF b = 0 THEN a ELSE Gcd(b, a % b)

\* the rational n/d in lowest terms with d >= 0; nan is <<0, 0>>, inf <<+-1, 0>>
Rat(n, d) ==
    IF d = 0 THEN <<IF n > 0 THEN 1 ELSE IF n < 0 THEN -1 ELSE 0, 0>>
    ELSE LET g == Gcd(Abs(n), Abs(d))
             s == IF d < 0 THEN -1 ELSE 1
         IN <<s * (n \div g), s * (d \div g)>>

RatInt(n) == <<n, 1>>
NaN == <<0, 0>>
RatMul(a, b) == IF (a[2] = 0 /\ a[1] = 0) \/ (b[2] = 0 /\ b[1] = 0) THEN NaN
                ELSE Rat(a[1] * b[1], a[2] * b[2])
RatAdd(a, b) == IF a[2] = 0 /\ b[2] = 0
                THEN (IF a[1] = b[1] THEN a ELSE NaN)
                ELSE IF a[2] = 0 THEN a ELSE IF b[2] = 0 THEN b
                ELSE Rat(a[1] * b[2] + b[1] * a[2], a[2] * b[2])
RatDiv(a, b) == IF (a[2] = 0 /\ a[1] = 0) \/ (b[2] = 0 /\ b[1] = 0) THEN NaN
                ELSE IF b[2] = 0 THEN (IF a[2] = 0 THEN NaN ELSE RatInt(0))
                ELSE Rat(a[1] * b[2], a[2] * b[1])

RECURSIVE SumSeq(_)
SumSeq(s) == IF s = <<>> THEN 0 ELSE Head(s) + SumSeq(Tail(s))

RECURSIVE ProdSeq(_)
ProdSeq(s) == IF s = <<>> THEN 1 ELSE Head(s) * ProdSeq(Tail(s))

RECURSIVE RatSum(_)
RatSum(s) == IF s = <<>> THEN RatInt(0) ELSE RatAdd(Head(s), RatSum(Tail(s)))

Arr(shape, data, pi) == [shape |-> shape, data |-> data, pi |-> pi]
NoArr == Arr(<<>>, <<>>, 0)

\* str.lower() on the option strings the model passes
Lower(s) ==
    CASE s = "LIN" -> "lin"
      [] s = "XYZ" -> "xyz"
      [] s = "Corrfunc" -> "corrfunc"
      [] OTHER -> s

\* -------------------------------------------------------------- the object
\* a counter object before __init__ has assigned anything
Blank ==
    [err |-> "", cls |-> "unset", mode |-> "unset", nthreads |-> 0,
     positions1 |-> <<>>, positions2 |-> <<>>, autocorr |-> FALSE,
     weight_type |-> "unset", weights1 |-> None, weights2 |-> None,
     edges |-> <<>>, bin_type |-> "unset", los |-> "unset",
     boxsize |-> [kind |-> "unset", val |-> <<>>],
     output_sepavg |-> FALSE, ran |-> FALSE,
     wcounts |-> NoArr, sep |-> NoArr, norm |-> None,
     n1 |-> 0, n2 |-> None]

Fail(self, e) == [self EXCEPT !.err = e]

\* the one element of a set of one element: a method body is the set its last
\* statement maps the set of its previous statement to, so that each
\* statement is evaluated once
The(S) == CHOOSE r \in S : TRUE

\* ---------------------------------------------------------------- edges
shape(self) == [d \in 1..Len(self.edges) |-> Len(self.edges[d]) - 1]

ndim(self) == Len(self.edges)

\* numpy.linspace(edges[0], edges[-1], len(edges))[i], times (len(edges) - 1)
LinspaceNum(edges, i) ==
    edges[1] * (Len(edges) - 1) + (i - 1) * (edges[Len(edges)] - edges[1])

\* numpy.allclose(edges, linspace): |a - b| <= atol + rtol * |b| for every
\* element; with the values in units of 2*atol this is 2*|a - b| <= 1 +
\* 2*rtol*|b|, and both sides are multiplied by RtolInv * (len(edges) - 1)
allclose_linspace(edges) ==
    IF Len(edges) = 1 THEN TRUE
    ELSE \A i \in 1..Len(edges) :
            2 * RtolInv * Abs(edges[i] * (Len(edges) - 1) - LinspaceNum(edges, i))
              <= RtolInv * (Len(edges) - 1) + 2 * Abs(LinspaceNum(edges, i))

_set_bin_type(self, bin_type) ==
    LET s1 == [self EXCEPT !.bin_type = Lower(bin_type)]
    IN IF s1.bin_type \notin {"lin", "custom", "auto"}
       THEN Fail(s1, "PairCounterError")
       ELSE IF s1.bin_type = "auto" /\ allclose_linspace(s1.edges[1])
            THEN [s1 EXCEPT !.bin_type = "lin"]
            ELSE s1

\* _set_edges without the check of the modes binned in one dimension
_set_edges_unchecked_1d(self, edges, bin_type) ==
    LET s1 == [self EXCEPT !.edges = edges.arrays]
    IN IF s1.mode \in {"smu", "rppi"} /\ ndim(s1) # 2
       THEN Fail(s1, "PairCounterError")
       ELSE _set_bin_type(s1, bin_type)

\* edges is [depth, arrays]: depth 1 is a bare array of edges (arrays holds it
\* alone, numpy.ndim(edges[0]) == 0), depth 2 a tuple of arrays
_set_edges(self, edges, bin_type) ==
    LET s1 == [self EXCEPT !.edges = edges.arrays]
    IN IF s1.mode \in {"smu", "rppi"}
       THEN IF ndim(s1) # 2 THEN Fail(s1, "PairCounterError")
            ELSE _set_bin_type(s1, bin_type)
       ELSE IF ndim(s1) # 1 THEN Fail(s1, "PairCounterError")
            ELSE _set_bin_type(s1, bin_type)

\* ------------------------------------------------------------- positions
\* a position component is an array [len, dtype]; a catalog is a list of them
Comp(n, t) == [len |-> n, dtype |-> t]
NoneComp == Comp(-1, "None")

\* utils.cartesian_to_sky / utils.sky_to_cartesian: three component arrays of
\* one length in, three arrays of that length and of the promoted type out
utils_convert(positions) ==
    IF Len(positions) # 3 THEN Raise("ValueError")
    ELSE IF \E i \in 2..3 : positions[i].len # positions[1].len
         THEN Raise("ValueError")
         ELSE LET t == IF \A i \in 1..3 : positions[i].dtype = "f4"
                       THEN "f4" ELSE "f8"
              IN Ok([i \in 1..3 |-> Comp(positions[1].len, t)])

\* the size and type checks that end check_positions
check_sizes(positions) ==
    IF \E i \in 2..Len(positions) : positions[i].len # positions[1].len
                                    \/ positions[i].dtype # positions[1].dtype
    THEN Raise("PairCounterError")
    ELSE Ok(positions)

check_positions(mode, position_type, positions) ==
    IF mode = "theta"
    THEN LET conv == IF position_type = "xyz"
                     THEN LET c == utils_convert(positions)
                          IN IF c.err # "" THEN c ELSE Ok(Tail(c.val))
                     ELSE IF position_type = "rdz"
                          THEN Ok(SubSeq(positions, 1, IF Len(positions) < 2
                                                       THEN Len(positions) ELSE 2))
                          ELSE IF position_type # "rd"
                               THEN Raise("PairCounterError")
                               ELSE Ok(positions)
         IN IF conv.err # "" THEN conv
            ELSE IF Len(conv.val) # 2 THEN Raise("PairCounterError")
                 ELSE check_sizes(conv.val)
    ELSE LET conv == IF position_type = "rdd"
                     THEN utils_convert(positions)
                     ELSE IF position_type # "xyz"
                          THEN Raise("PairCounterError")
                          ELSE Ok(positions)
         IN IF conv.err # "" THEN conv
            ELSE IF Len(conv.val) # 3 THEN Raise("PairCounterError")
                 ELSE check_sizes(conv.val)

\* position_type after the 'auto' default of _set_positions
resolve_position_type(mode, position_type) ==
    IF Lower(position_type) = "auto"
    THEN (IF mode = "theta" THEN "rd" ELSE "xyz")
    ELSE Lower(position_type)

_set_positions(self, positions1, positions2, position_type) ==
    LET pt == resolve_position_type(self.mode, position_type)
        c1 == check_positions(self.mode, pt, positions1)
    IN IF c1.err # "" THEN Fail(self, c1.err)
       ELSE LET s1 == [self EXCEPT !.positions1 = c1.val,
                                   !.autocorr = IsNone(positions2)]
            IN IF s1.autocorr
               THEN [s1 EXCEPT !.positions2 =
                                   [i \in 1..Len(c1.val) |-> NoneComp]]
               ELSE LET c2 == check_positions(self.mode, pt, Get(positions2))
                    IN IF c2.err # "" THEN Fail(s1, c2.err)
                       ELSE [s1 EXCEPT !.positions2 = c2.val]

\* --------------------------------------------------------------- weights
_set_weight_type(self, weight_type) ==
    LET s1 == [self EXCEPT !.weight_type = weight_type]
    IN IF weight_type \notin {"None", "auto", "pair_product"}
       THEN Fail(s1, "PairCounterError")
       ELSE s1

\* check_weights(weights, size): len() of None is a TypeError
check_weights(weights, size) ==
    IF IsNone(weights) THEN "TypeError"
    ELSE IF Len(Get(weights)) # size THEN "PairCounterError"
    ELSE ""

\* the presence checks without the one of line 226
weights_presence_no_226(autocorr, weights1, weights2) ==
    /\ ~(autocorr /\ ~IsNone(weights2))
    /\ IsNone(weights1) => IsNone(weights2)

\* the presence checks of _set_weights, lines 213-226
weights_presence_ok(autocorr, weights1, weights2) ==
    /\ ~(autocorr /\ ~IsNone(weights2))
    /\ IF IsNone(weights1)
       THEN IsNone(weights2)
       ELSE IF autocorr THEN IsNone(weights2) ELSE ~IsNone(weights2)

_set_weights(self, weights1, weights2, weight_type) ==
    LET s1 == _set_weight_type(self, weight_type)
    IN IF s1.err # "" THEN s1
       ELSE IF ~weights_presence_ok(s1.autocorr, weights1, weights2)
       THEN Fail(s1, "PairCounterError")
       ELSE LET s2 == IF s1.weight_type = "auto"
                      THEN [s1 EXCEPT !.weight_type =
                               IF IsNone(weights1) THEN "None" ELSE "pair_product"]
                      ELSE s1
            IN IF s2.weight_type = "None"
               THEN [s2 EXCEPT !.weights1 = None, !.weights2 = None]
               ELSE LET s3 == [s2 EXCEPT !.weights1 = weights1]
                        e1 == check_weights(weights1, s3.positions1[1].len)
                    IN IF e1 # "" THEN Fail(s3, e1)
                       ELSE LET s4 == [s3 EXCEPT !.weights2 = weights2]
                                e2 == IF s4.autocorr THEN ""
                                      ELSE check_weights(weights2,
                                                         s4.positions2[1].len)
                            IN IF e2 # "" THEN Fail(s4, e2) ELSE s4

\* ----------------------------------------------------------- los, boxsize
_set_los(self, los) ==
    LET s1 == [self EXCEPT !.los = los]
    IN IF los \notin {"midpoint", "endpoint", "firstpoint", "x", "y", "z"}
       THEN Fail(s1, "PairCounterError")
       ELSE s1

\* a boxsize is [kind, val]: kind "none" (None), "number" (a Python number),
\* "npscalar" (a numpy scalar), "ndarray" (a numpy array of 3 side lengths),
\* "nan3" (numpy.empty(3) filled from None: three nan)
Box(kind, val) == [kind |-> kind, val |-> val]

periodic(self) == self.boxsize.kind = "none"

_set_boxsize(self, boxsize) ==
    LET s1 == [self EXCEPT !.boxsize = boxsize]
    IN IF periodic(s1)
       THEN [s1 EXCEPT !.boxsize =
                IF boxsize.kind = "none" THEN Box("nan3", <<>>)
                ELSE Box("ndarray",
                         IF Len(boxsize.val) = 1
                         THEN <<boxsize.val[1], boxsize.val[1], boxsize.val[1]>>
                         ELSE boxsize.val)]
       ELSE s1

\* --------------------------------------------------------- normalization
\* normalization() counting the self-pairs of an unweighted autocorrelation
normalization_selfpairs(self) ==
    IF self.weight_type = "None"
    THEN IF self.autocorr
         THEN self.positions1[1].len * self.positions1[1].len
         ELSE self.positions1[1].len * self.positions2[1].len
    ELSE IF self.autocorr
         THEN SumSeq(Get(self.weights1)) * SumSeq(Get(self.weights1))
         ELSE SumSeq(Get(self.weights1)) * SumSeq(Get(self.weights2))

normalization(self) ==
    IF self.weight_type = "None"
    THEN IF self.autocorr
         THEN self.positions1[1].len * (self.positions1[1].len - 1)
         ELSE self.positions1[1].len * self.positions2[1].len
    ELSE IF self.autocorr
         THEN SumSeq(Get(self.weights1)) * SumSeq(Get(self.weights1))
              - SumSeq([i \in 1..Len(Get(self.weights1)) |->
                            Get(self.weights1)[i] * Get(self.weights1)[i]])
         ELSE SumSeq(Get(self.weights1)) * SumSeq(Get(self.weights2))

\* ------------------------------------------------------------ default sep
\* (edges[1:] + edges[:-1])/2.
midpoints(edges) == [i \in 1..(Len(edges) - 1) |-> Rat(edges[i + 1] + edges[i], 2)]

\* numpy assignment sep[...] = sep of a 1-D array of length shp[1] into an
\* array of shape shp = (a, b): the source is aligned with the LAST axis, so
\* it needs a = b or a = 1, and element [i, j] receives source[j]
_set_default_sep(self) ==
    LET sep == midpoints(self.edges[1])
        shp == shape(self)
    IN IF ndim(self) = 2
       THEN IF Len(sep) # shp[2] /\ Len(sep) # 1
            THEN Fail(self, "ValueError")
            ELSE [self EXCEPT !.sep =
                     Arr(shp, [k \in 1..(shp[1] * shp[2]) |->
                                  IF Len(sep) = 1 THEN sep[1]
                                  ELSE sep[((k - 1) % shp[2]) + 1]], 0)]
       ELSE [self EXCEPT !.sep = Arr(<<Len(sep)>>, sep, 0)]

\* ------------------------------------------------- the enumeration backend
\* The pair enumeration (CorrfuncTwoPointCounterEngine.run) is external: it
\* fills wcounts and sep, both of the edges-derived shape.  Its result is the
\* environment's choice out = [a, lo]: bin k holds (a + k) mod (MaxCount + 1)
\* pairs; the average separation of a non-empty bin is the lower edge (lo) or
\* the midpoint of its first-dimension bin, nan for an empty bin; no average is
\* computed when output_sepavg is off.  Catalogs without a weighted pair
\* (normalization 0) leave every bin empty.
BackendOuts == [a : 0..MaxCount, lo : BOOLEAN]

\* the result where the calls do not vary it
SomeOut == [a |-> 0, lo |-> TRUE]

NBins(shp) == ProdSeq(shp)

run_backend(self, out) ==
    LET s1 == [self EXCEPT !.ran = TRUE]
        shp == shape(s1)
        inner == IF Len(shp) = 2 THEN shp[2] ELSE 1
        \* no bin holds a count when the catalogs hold no weighted pair
        cnt(k) == IF normalization(s1) = 0 THEN 0 ELSE (out.a + k) % (MaxCount + 1)
        e == s1.edges[1]
        row(k) == ((k - 1) \div inner) + 1
    IN IF s1.mode \notin {"theta", "s", "smu", "rppi", "rp"}
       THEN Fail(s1, "BackendError")
       ELSE [s1 EXCEPT
               !.wcounts = Arr(shp, [k \in 1..NBins(shp) |-> RatInt(cnt(k))], 0),
               !.sep = Arr(shp, [k \in 1..NBins(shp) |->
                           IF ~s1.output_sepavg \/ cnt(k) = 0 THEN NaN
                           ELSE IF out.lo THEN RatInt(e[row(k)])
                           ELSE Rat(e[row(k)] + e[row(k) + 1], 2)], 0)]

\* ----------------------------------------------- BaseTwoPointCounterEngine
\* __init__, lines 112-131; a is the record of the call's arguments
__init__(a, out) ==
    The({IF s6.err # "" THEN s6 ELSE [s6 EXCEPT !.norm = Some(normalization(s6))] :
      s6 \in {IF s5.err # "" \/ s5.output_sepavg THEN s5 ELSE _set_default_sep(s5) :
      s5 \in {IF s4.err # "" THEN s4
              ELSE run_backend([s4 EXCEPT !.output_sepavg = a.output_sepavg], out) :
      s4 \in {IF s3.err # "" THEN s3 ELSE _set_boxsize(s3, a.boxsize) :
      s3 \in {IF s2.err # "" THEN s2 ELSE _set_los(s2, a.los) :
      s2 \in {IF s1.err # "" THEN s1 ELSE _set_edges(s1, a.edges, a.bin_type) :
      s1 \in {IF s0.err # "" THEN s0
              ELSE _set_weights(s0, a.weights1, a.weights2, a.weight_type) :
      s0 \in {_set_positions(
                 [Blank EXCEPT !.cls = "engine", !.mode = a.mode,
                               !.nthreads = IF IsNone(a.nthreads) THEN OMP_NUM_THREADS
                                            ELSE Get(a.nthreads)],
                 a.positions1, a.positions2, a.position_type)}}}}}}}})

\* the factory TwoPointCounter(*args, engine=..., **kwargs), lines 306-316;
\* engine is None-able: a value that is not a string is returned as it is
TwoPointCounter_new(a, out) ==
    IF IsNone(a.engine) THEN [Blank EXCEPT !.cls = "not a counter"]
    ELSE IF Lower(Get(a.engine)) = "corrfunc" THEN __init__(a, out)
    ELSE Fail(Blank, "PairCounterError")

\* --------------------------------------------------- AnalyticTwoPointCounter
Analytic_normalization(self) ==
    IF self.autocorr THEN self.n1 * (self.n1 - 1) ELSE self.n1 * Get(self.n2)

\* self.boxsize.prod(): only numpy values have the method
box_prod(box) ==
    CASE box.kind = "ndarray" -> Ok(RatInt(ProdSeq(box.val)))
      [] box.kind = "npscalar" -> Ok(RatInt(box.val[1]))
      [] box.kind = "nan3" -> Ok(NaN)
      [] OTHER -> Raise("AttributeError")

\* self.boxsize['xyz'.index(self.los)]
box_side(box, los) ==
    IF los \notin {"x", "y", "z"} THEN Raise("ValueError")
    ELSE CASE box.kind = "ndarray" ->
                Ok(RatInt(box.val[CASE los = "x" -> 1 [] los = "y" -> 2
                                    [] OTHER -> 3]))
           [] box.kind = "nan3" -> Ok(NaN)
           [] box.kind = "npscalar" -> Raise("IndexError")
           [] OTHER -> Raise("TypeError")

Cube(x) == x * x * x
Square(x) == x * x

\* dv of run(), as [err, shape, data]: the coefficient of Pi in each bin's
\* volume, lines 333-348
Analytic_dv(self) ==
    LET e == self.edges
        n == Len(e[1]) - 1
    IN CASE self.mode = "s" ->
              [err |-> "", shape |-> <<n>>,
               data |-> [i \in 1..n |-> Rat(4 * (Cube(e[1][i + 1]) - Cube(e[1][i])), 3)]]
         [] self.mode = "smu" ->
              LET m == Len(e[2]) - 1
              IN [err |-> "", shape |-> <<n, m>>,
                  data |-> [k \in 1..(n * m) |->
                     LET i == ((k - 1) \div m) + 1
                         j == ((k - 1) % m) + 1
                     IN Rat(4 * (Cube(e[1][i + 1]) - Cube(e[1][i]))
                              * (e[2][j + 1] - e[2][j]), 3)]]
         [] self.mode = "rppi" ->
              LET m == Len(e[2]) - 1
              IN [err |-> "", shape |-> <<n, m>>,
                  data |-> [k \in 1..(n * m) |->
                     LET i == ((k - 1) \div m) + 1
                         j == ((k - 1) % m) + 1
                     IN RatInt(2 * (Square(e[1][i + 1]) - Square(e[1][i]))
                                 * (e[2][j + 1] - e[2][j]))]]
         [] self.mode = "rp" ->
              LET side == box_side(self.boxsize, self.los)
              IN IF side.err # "" THEN [err |-> side.err, shape |-> <<>>, data |-> <<>>]
                 ELSE [err |-> "", shape |-> <<n, 1>>,
                       data |-> [i \in 1..n |->
                          RatMul(RatInt(Square(e[1][i + 1]) - Square(e[1][i])),
                                 side.val)]]
         [] OTHER -> [err |-> "PairCounterError", shape |-> <<>>, data |-> <<>>]

Analytic_run(self) ==
    LET dv == Analytic_dv(self)
        vol == box_prod(self.boxsize)
    IN IF dv.err # "" THEN Fail(self, dv.err)
       ELSE IF vol.err # "" THEN Fail(self, vol.err)
       ELSE [self EXCEPT !.wcounts =
                Arr(dv.shape,
                    [k \in 1..Len(dv.data) |->
                        RatDiv(RatMul(RatInt(Analytic_normalization(self)), dv.data[k]),
                               vol.val)], 1)]

\* AnalyticTwoPointCounter.__init__, lines 321-330
Analytic__init__(a) ==
    The({IF s3.err # "" THEN s3 ELSE _set_default_sep(s3) :
      s3 \in {IF s2.err # "" THEN s2
              ELSE Analytic_run([s2 EXCEPT !.n1 = a.n1, !.n2 = a.n2,
                                           !.autocorr = IsNone(a.n2), !.ran = TRUE]) :
      s2 \in {IF s1.err # "" THEN s1 ELSE _set_los(s1, a.los) :
      s1 \in {IF s0.err # "" THEN s0 ELSE _set_boxsize(s0, a.boxsize) :
      s0 \in {_set_edges([Blank EXCEPT !.cls = "analytic", !.mode = a.mode],
                         a.edges, "auto")}}}}})

\* ------------------------------------------------------------------ rebin
\* utils.rebin(ndarray, new_shape, statistic=np.sum): the array summed over
\* the blocks of adjacent bins that new_shape makes; new_shape is None when
\* the caller does not pass it, and must divide the array's shape
utils_rebin(ndarray, new_shape) ==
    IF IsNone(new_shape) THEN Raise("TypeError")
    ELSE LET ns == Get(new_shape)
             os == ndarray.shape
         IN IF Len(ns) # Len(os) THEN Raise("ValueError")
            ELSE IF \E d \in 1..Len(ns) : ns[d] = 0 THEN Raise("ZeroDivisionError")
            ELSE IF \E d \in 1..Len(ns) : os[d] % ns[d] # 0 THEN Raise("ValueError")
            ELSE LET f == [d \in 1..Len(ns) |-> os[d] \div ns[d]]
                     inner == IF Len(ns) = 2 THEN ns[2] ELSE 1
                     oinner == IF Len(os) = 2 THEN os[2] ELSE 1
                     finner == IF Len(ns) = 2 THEN f[2] ELSE 1
                     fouter == IF Len(ns) = 2 THEN f[1] ELSE 1
                     block(k) ==
                        IF Len(ns) = 1
                        THEN [q \in 1..f[1] |-> ndarray.data[(k - 1) * f[1] + q]]
                        ELSE LET i == (k - 1) \div inner
                                 j == (k - 1) % inner
                             IN [q \in 1..(fouter * finner) |->
                                   ndarray.data[(i * fouter + ((q - 1) \div finner)) * oinner
                                                + j * finner + ((q - 1) % finner) + 1]]
                 IN Ok(Arr(ns, [k \in 1..NBins(ns) |-> RatSum(block(k))], ndarray.pi))

\* numpy broadcasting of two arrays of one or two dimensions under op
Shape2(shp) == IF Len(shp) = 1 THEN <<1, shp[1]>> ELSE shp

broadcast(x, y, op) ==
    LET sx == Shape2(x.shape)
        sy == Shape2(y.shape)
        ok == \A d \in 1..2 : sx[d] = sy[d] \/ sx[d] = 1 \/ sy[d] = 1
        so == [d \in 1..2 |-> IF sx[d] = 1 THEN sy[d] ELSE sx[d]]
        at(a, sa, k) ==
            LET i == IF sa[1] = 1 THEN 0 ELSE (k - 1) \div so[2]
                j == IF sa[2] = 1 THEN 0 ELSE (k - 1) % so[2]
            IN a.data[i * sa[2] + j + 1]
    IN IF ~ok THEN Raise("ValueError")
       ELSE Ok(Arr(IF Len(x.shape) = 1 /\ Len(y.shape) = 1 THEN <<so[2]>> ELSE so,
                   [k \in 1..(so[1] * so[2]) |-> IF op = "*" THEN RatMul(at(x, sx, k), at(y, sy, k))
                                             ELSE RatDiv(at(x, sx, k), at(y, sy, k))],
                   x.pi + y.pi))

\* rebin with new_shape handed to both calls of utils.rebin
rebin_passing_new_shape(self, factor) ==
    IF Len(factor.val) # ndim(self) THEN Fail(self, "PairCounterError")
    ELSE IF \E d \in 1..Len(factor.val) : factor.val[d] = 0
         THEN Fail(self, "ZeroDivisionError")
    ELSE LET new_shape == [d \in 1..ndim(self) |-> shape(self)[d] \div factor.val[d]]
         IN The({IF s1.err # "" THEN s1
                 ELSE The({IF prod.err # "" THEN Fail(s1, prod.err)
                           ELSE The({IF ssum.err # "" THEN Fail(s1, ssum.err)
                                     ELSE The({IF q.err # "" THEN Fail(s1, q.err)
                                               ELSE [s1 EXCEPT !.sep =
                                                        [q.val EXCEPT !.pi = s1.sep.pi]] :
                                       q \in {broadcast(ssum.val, s1.wcounts, "/")}}) :
                             ssum \in {utils_rebin(prod.val, Some(new_shape))}}) :
                   prod \in {broadcast(s1.sep, s1.wcounts, "*")}}) :
            s1 \in {IF wc.err # "" THEN Fail(self, wc.err)
                    ELSE [self EXCEPT !.wcounts = wc.val] :
            wc \in {utils_rebin(self.wcounts, Some(new_shape))}}})

\* the rebinning factor is [depth, val]: depth 0 a scalar, val holding it alone
\* rebin, lines 296-303: new_shape is what line 301 computes; lines 302-303
\* call utils.rebin(array, statistic=np.sum), which passes no new_shape
rebin(self, factor) ==
    IF Len(factor.val) # ndim(self) THEN Fail(self, "PairCounterError")
    ELSE IF \E d \in 1..Len(factor.val) : factor.val[d] = 0
         THEN Fail(self, "ZeroDivisionError")
    ELSE LET new_shape == [d \in 1..ndim(self) |-> shape(self)[d] \div factor.val[d]]
         IN The({IF s1.err # "" THEN s1
                 ELSE The({IF prod.err # "" THEN Fail(s1, prod.err)
                           ELSE The({IF ssum.err # "" THEN Fail(s1, ssum.err)
                                     ELSE The({IF q.err # "" THEN Fail(s1, q.err)
                                               ELSE [s1 EXCEPT !.sep =
                                                        [q.val EXCEPT !.pi = s1.sep.pi]] :
                                       q \in {broadcast(ssum.val, s1.wcounts, "/")}}) :
                             ssum \in {utils_rebin(prod.val, None)}}) :
                   prod \in {broadcast(s1.sep, s1.wcounts, "*")}}) :
            s1 \in {IF wc.err # "" THEN Fail(self, wc.err)
                    ELSE [self EXCEPT !.wcounts = wc.val] :
            wc \in {utils_rebin(self.wcounts, None)}}})

\* ----------------------------------------------------------- persistence
\* the attributes __init__ of each class has assigned
HasAttr(self, name) ==
    \/ name \in {"sep", "wcounts", "edges", "mode", "bin_type", "los",
                 "periodic", "boxsize"}
    \/ self.cls = "engine" /\ name \in {"weight_type", "output_sepavg", "norm",
                                         "positions1", "positions2", "weights1",
                                         "weights2", "autocorr", "nthreads"}
    \/ self.cls = "analytic" /\ name \in {"n1", "n2", "autocorr"}

\* normalized_wcounts, lines 285-287: wcounts/norm, numpy's division of an
\* array by a number: a zero divisor gives inf, and nan where the count is
\* zero too, and raises nothing
normalized_wcounts(self) ==
    IF ~HasAttr(self, "norm") THEN Raise("AttributeError")
    ELSE Ok(Arr(self.wcounts.shape,
                [k \in 1..Len(self.wcounts.data) |->
                    RatDiv(self.wcounts.data[k], RatInt(Get(self.norm)))],
                self.wcounts.pi))

StateNames == <<"sep", "wcounts", "edges", "mode", "bin_type", "weight_type",
                "los", "periodic", "boxsize", "output_sepavg">>

\* __getstate__, lines 289-294: getattr of an attribute never assigned raises
__getstate__(self) ==
    IF \E i \in 1..Len(StateNames) : ~HasAttr(self, StateNames[i])
    THEN Raise("AttributeError")
    ELSE Ok([sep |-> self.sep, wcounts |-> self.wcounts, edges |-> self.edges,
             mode |-> self.mode, bin_type |-> self.bin_type,
             weight_type |-> self.weight_type, los |-> self.los,
             periodic |-> periodic(self), boxsize |-> self.boxsize,
             output_sepavg |-> self.output_sepavg])

\* BaseClass.load: a new object whose attributes are the persisted record's
\* (__setstate__ updates __dict__); has lists the attributes it holds
load(state) ==
    [has |-> (DOMAIN state) \ {"periodic"},
     obj |-> [Blank EXCEPT !.cls = "loaded", !.sep = state.sep,
                           !.wcounts = state.wcounts, !.edges = state.edges,
                           !.mode = state.mode, !.bin_type = state.bin_type,
                           !.weight_type = state.weight_type, !.los = state.los,
                           !.boxsize = state.boxsize,
                           !.output_sepavg = state.output_sepavg]]

NotLoaded == [has |-> {}, obj |-> Blank]

\* ------------------------------------------------------------------ state
VARIABLES
    pc,       \* "start", "ok" (a counter was returned), "failed" (the constructor
              \* raised), "returned" (the factory handed back its engine argument)
    args,     \* the arguments of the constructor call
    counter,  \* the counter the caller holds; Blank when it holds none
    err,      \* the exception the last operation raised, "" when none
    ran,      \* whether the constructor call reached run()
    last,     \* the last operation and its argument
    saved,    \* the saved file: None, or the persisted record
    loaded,   \* the object load() returned
    returned  \* the array the last operation returned, NoArr when it returned none

vars == <<pc, args, counter, err, ran, last, saved, loaded, returned>>

\* ----------------------------------------------------------------- inputs
Modes == {"theta", "s", "smu", "rppi", "rp"}
ModeArgs == Modes \cup {"xi"}

\* strictly increasing edges over 0..MaxEdge, two edges or more
EdgeArrays ==
    {e \in UNION {[1..n -> 0..MaxEdge] : n \in 2..(MaxEdge + 1)} :
        \A i \in 1..(Len(e) - 1) : e[i] < e[i + 1]}

SecondEdges == {<<0, 1>>, <<0, 2, 3>>}

Edges(depth, arrays) == [depth |-> depth, arrays |-> arrays]

EdgesArgs ==
    {Edges(1, <<e>>) : e \in EdgeArrays}
    \cup {Edges(2, <<e>>) : e \in SecondEdges}
    \cup {Edges(2, <<e, f>>) : e \in EdgeArrays, f \in SecondEdges}
    \cup {Edges(2, <<<<0, 1>>, <<0, 1>>, <<0, 1>>>>)}

DefaultEdges(mode) ==
    IF mode \in {"smu", "rppi"} THEN Edges(2, <<<<0, 1, 2>>, <<0, 2, 3>>>>)
    ELSE Edges(1, <<<<0, 1, 2>>>>)

\* a catalog of nc components of n objects; defect "len" or "dtype" makes the
\* last component one longer or single precision, "f4" makes all of them single
Catalog(nc, n, defect) ==
    [i \in 1..nc |->
        Comp(IF defect = "len" /\ i = nc THEN n + 1 ELSE n,
             IF defect = "f4" \/ (defect = "dtype" /\ i = nc) THEN "f4" ELSE "f8")]

Catalogs ==
    {Catalog(nc, n, d) : nc \in 2..4, n \in 1..MaxN, d \in {"ok", "len", "dtype"}}
    \cup {Catalog(3, MaxN, "f4")}

DefaultCatalog(mode, n) == Catalog(IF mode = "theta" THEN 2 ELSE 3, n, "ok")

\* weights for a catalog of n objects: every array of n weights, and one array
\* that is one too long
WeightArgs(n) ==
    {None} \cup {Some(w) : w \in [1..n -> 0..MaxW]}
           \cup {Some([i \in 1..(n + 1) |-> 1])}

\* the same with the arrays of equal weights alone
EqualWeightArgs(n) ==
    {w \in WeightArgs(n) : IsNone(w) \/ \A i \in 1..Len(Get(w)) : Get(w)[i] = Get(w)[1]}

BoxArgs ==
    {Box("none", <<>>)}
    \cup {Box(k, <<l>>) : k \in {"number", "npscalar"}, l \in 1..MaxBox}
    \cup {Box("ndarray", v) : v \in {u \in [1..3 -> 1..MaxBox] :
                                        u[1] = 1 \/ (u[2] = u[1] /\ u[3] = u[1])}}

\* the same with the cubic boxes alone
CubicBoxArgs == {b \in BoxArgs : \A i \in 1..Len(b.val) : b.val[i] = b.val[1]}

\* the defaults of __init__, lines 27-29, around valid positions and edges
Defaults(mode) ==
    [cls |-> "engine", engine |-> Some("corrfunc"), mode |-> mode,
     edges |-> DefaultEdges(mode),
     positions1 |-> DefaultCatalog(mode, MaxN), positions2 |-> None,
     weights1 |-> None, weights2 |-> None,
     bin_type |-> "auto", position_type |-> "auto", weight_type |-> "auto",
     los |-> "midpoint", boxsize |-> Box("none", <<>>),
     output_sepavg |-> TRUE, nthreads |-> None]

\* a call that sets the mode, the edges and the binning options
EdgeCall(m, e, b, o) ==
    [Defaults(m) EXCEPT !.edges = e, !.bin_type = b, !.output_sepavg = o]

BinTypeArgs == {"auto", "custom", "LIN", "log"}

\* a call that sets the positions and their type
PositionCall(m, p1, p2, t) ==
    [Defaults(m) EXCEPT !.positions1 = p1, !.positions2 = p2, !.position_type = t]

PositionTypeArgs == {"auto", "rd", "rdd", "xyz", "rdz", "XYZ", "radec"}

\* a call that sets the catalog sizes, the weights and their type
WeightCall(n1, p2, w1, w2, t) ==
    [Defaults("s") EXCEPT !.positions1 = DefaultCatalog("s", n1), !.positions2 = p2,
                          !.weights1 = w1, !.weights2 = w2, !.weight_type = t]

WeightTypeArgs == {"None", "auto", "pair_product", "inverse"}

\* a call that sets the line of sight, the box and output_sepavg
OptionCall(m, l, b, o) ==
    [Defaults(m) EXCEPT !.los = l, !.boxsize = b, !.output_sepavg = o]

\* a call that sets the engine and the number of threads
EngineCall(m, g, t) == [Defaults(m) EXCEPT !.engine = g, !.nthreads = t]

LosArgs == {"midpoint", "endpoint", "firstpoint", "x", "y", "z", "w"}
EngineArgs == {Some("corrfunc"), Some("Corrfunc"), Some("treecorr"), None}

AnalyticCall(mode, edges, boxsize, n1, n2, los) ==
    [cls |-> "analytic", mode |-> mode, edges |-> edges, boxsize |-> boxsize,
     n1 |-> n1, n2 |-> n2, los |-> los]

Factor(depth, val) == [depth |-> depth, val |-> val]

\* a scalar factor, or a tuple of one or of two factors
Factors ==
    {Factor(0, <<f>>) : f \in 1..2}
    \cup {Factor(1, <<2>>)}
    \cup {Factor(1, <<f, 2>>) : f \in 1..2}
    \cup {Factor(1, <<2, 1>>)}

\* ---------------------------------------------------------------- actions
Init ==
    /\ pc = "start"
    /\ args = [cls |-> "none"]
    /\ counter = Blank
    /\ err = ""
    /\ ran = FALSE
    /\ last = [op |-> "none", factor |-> Factor(0, <<1>>)]
    /\ saved = None
    /\ loaded = NotLoaded
    /\ returned = NoArr

Op(name) == [op |-> name, factor |-> Factor(0, <<1>>)]

\* the outcome of a constructor call that evaluated to the object s
Constructed(a, s) ==
    /\ pc' = IF s.err # "" THEN "failed"
             ELSE IF s.cls = "not a counter" THEN "returned" ELSE "ok"
    /\ args' = a
    /\ counter' = IF s.err # "" \/ s.cls = "not a counter" THEN Blank ELSE s
    /\ err' = s.err
    /\ ran' = s.ran
    /\ last' = Op("new")
    /\ UNCHANGED <<saved, loaded, returned>>

\* TwoPointCounter(mode, edges, positions1, bin_type=..., output_sepavg=...)
NewEdges ==
    /\ pc = "start"
    /\ \E m \in ModeArgs, e \in EdgesArgs, b \in BinTypeArgs, o \in BOOLEAN,
          out \in BackendOuts :
          \E s \in {TwoPointCounter_new(EdgeCall(m, e, b, o), out)} :
                      Constructed(EdgeCall(m, e, b, o), s)

\* TwoPointCounter(mode, edges, positions1, positions2, position_type=...)
NewPositions ==
    /\ pc = "start"
    /\ \E m \in {"theta", "s", "smu"}, p1 \in Catalogs,
          p2 \in {None} \cup {Some(c) : c \in {q \in Catalogs : q[1].len = MaxN}},
          t \in PositionTypeArgs :
          \E s \in {TwoPointCounter_new(PositionCall(m, p1, p2, t), SomeOut)} :
                      Constructed(PositionCall(m, p1, p2, t), s)

\* TwoPointCounter('s', edges, positions1, positions2, weights1, weights2,
\* weight_type=...)
NewWeights ==
    /\ pc = "start"
    /\ \E n1 \in 0..MaxN,
          p2 \in {None} \cup {Some(DefaultCatalog("s", n)) : n \in 0..MaxN} :
          \E w1 \in WeightArgs(n1),
             w2 \in EqualWeightArgs(IF IsNone(p2) THEN n1 ELSE Get(p2)[1].len),
             t \in WeightTypeArgs :
             \E s \in {TwoPointCounter_new(WeightCall(n1, p2, w1, w2, t), SomeOut)} :
                         Constructed(WeightCall(n1, p2, w1, w2, t), s)

\* TwoPointCounter(mode, edges, positions1, los=..., boxsize=...,
\* output_sepavg=...)
NewOptions ==
    /\ pc = "start"
    /\ \E m \in {"s", "smu", "xi"}, l \in LosArgs, b \in CubicBoxArgs, o \in BOOLEAN :
          \E s \in {TwoPointCounter_new(OptionCall(m, l, b, o), SomeOut)} :
                      Constructed(OptionCall(m, l, b, o), s)

\* TwoPointCounter(mode, edges, positions1, engine=..., nthreads=...)
NewEngine ==
    /\ pc = "start"
    /\ \E m \in ModeArgs, g \in EngineArgs, t \in {None, Some(2)} :
          \E s \in {TwoPointCounter_new(EngineCall(m, g, t), SomeOut)} :
                      Constructed(EngineCall(m, g, t), s)

\* AnalyticTwoPointCounter(mode, edges, boxsize): n1, n2 and los at their
\* defaults (n1 = 10 of line 321 scaled down to MaxN)
NewAnalyticEdges ==
    /\ pc = "start"
    /\ \E m \in ModeArgs, e \in EdgesArgs, b \in BoxArgs :
          \E s \in {Analytic__init__(AnalyticCall(m, e, b, MaxN, None, "z"))} :
             Constructed(AnalyticCall(m, e, b, MaxN, None, "z"), s)

\* AnalyticTwoPointCounter(mode, edges, boxsize, n1, n2, los)
NewAnalyticOptions ==
    /\ pc = "start"
    /\ \E m \in ModeArgs, b \in CubicBoxArgs, n1 \in 0..MaxN,
          n2 \in {None} \cup {Some(n) : n \in 0..MaxN},
          l \in {"x", "y", "z", "midpoint", "w"} :
          \E s \in {Analytic__init__(AnalyticCall(m, DefaultEdges(m), b, n1, n2, l))} :
             Constructed(AnalyticCall(m, DefaultEdges(m), b, n1, n2, l), s)

\* counter.rebin(factor): an exception leaves the attributes assigned so far
Rebin ==
    /\ pc = "ok"
    /\ \E factor \in Factors :
          \E s \in {rebin(counter, factor)} :
             /\ counter' = [s EXCEPT !.err = ""]
             /\ err' = s.err
             /\ last' = [op |-> "rebin", factor |-> factor]
    /\ returned' = NoArr
    /\ UNCHANGED <<pc, args, ran, saved, loaded>>

\* counter.save(filename): the file holds __getstate__()
Save ==
    /\ pc = "ok"
    /\ \E st \in {__getstate__(counter)} :
          /\ err' = st.err
          /\ saved' = IF st.err # "" THEN saved ELSE Some(st.val)
    /\ last' = Op("save")
    /\ returned' = NoArr
    /\ UNCHANGED <<pc, args, counter, ran, loaded>>

\* cls.load(filename)
Load ==
    /\ pc = "ok"
    /\ ~IsNone(saved)
    /\ loaded' = load(Get(saved))
    /\ err' = ""
    /\ last' = Op("load")
    /\ returned' = NoArr
    /\ UNCHANGED <<pc, args, counter, ran, saved>>

\* counter.normalized_wcounts()
NormalizedWcounts ==
    /\ pc = "ok"
    /\ \E r \in {normalized_wcounts(counter)} :
          /\ err' = r.err
          /\ returned' = IF r.err # "" THEN NoArr ELSE r.val
    /\ last' = Op("normalized_wcounts")
    /\ UNCHANGED <<pc, args, counter, ran, saved, loaded>>

Next ==
    \/ NewEdges \/ NewPositions \/ NewWeights \/ NewOptions \/ NewEngine
    \/ NewAnalyticEdges \/ NewAnalyticOptions
    \/ Rebin \/ Save \/ Load \/ NormalizedWcounts

Spec == Init /\ [][Next]_vars

\* ------------------------------------------------------------- properties
Called == pc # "start"
EngineCalled == Called /\ args.cls = "engine"
AnalyticCalled == Called /\ args.cls = "analytic"

Unweighted(a) ==
    a.weight_type = "None" \/ (a.weight_type = "auto" /\ IsNone(a.weights1))

SumSquares(w) == SumSeq([i \in 1..Len(w) |-> w[i] * w[i]])

\* the norm the normalization identities give for the call a
ExpectedNorm(a) ==
    IF Unweighted(a)
    THEN IF IsNone(a.positions2)
         THEN a.positions1[1].len * (a.positions1[1].len - 1)
         ELSE a.positions1[1].len * Get(a.positions2)[1].len
    ELSE IF IsNone(a.positions2)
         THEN SumSeq(Get(a.weights1)) * SumSeq(Get(a.weights1))
              - SumSquares(Get(a.weights1))
         ELSE SumSeq(Get(a.weights1)) * SumSeq(Get(a.weights2))

MismatchedEdges(a) == (Len(a.edges.arrays) = 2) # (a.mode \in {"smu", "rppi"})
                      \/ Len(a.edges.arrays) \notin {1, 2}

\* C2: a constructed counter has two edge arrays iff its mode is smu or rppi
\* and one otherwise, a bare array having become a tuple of one; a call whose
\* edges do not match its mode fails with PairCounterError.
C2_EdgeDimensions ==
    /\ pc = "ok" => /\ ndim(counter) = (IF counter.mode \in {"smu", "rppi"} THEN 2 ELSE 1)
                    /\ counter.edges = args.edges.arrays
    /\ (Called /\ pc # "returned" /\ MismatchedEdges(args))
          => (pc = "failed" /\ err = "PairCounterError")

\* mode s called with a tuple of two edge arrays
C2_Witness ==
    /\ Called /\ args.mode = "s" /\ Len(args.edges.arrays) = 2
    /\ pc = "failed" /\ err = "PairCounterError" /\ ~ran

\* C3: with bin_type 'auto' the bin_type of a constructed counter is 'lin' when
\* the first-dimension edges match the evenly spaced sequence within the
\* tolerance and 'custom' otherwise, never 'auto'.
C3_BinTypeResolved ==
    (EngineCalled /\ pc = "ok" /\ Lower(args.bin_type) = "auto")
       => /\ counter.bin_type \in {"lin", "custom"}
          /\ counter.bin_type = "lin" <=> allclose_linspace(args.edges.arrays[1])

\* the side lengths a given box geometry stands for
BoxSides(box) ==
    IF Len(box.val) = 1 THEN <<box.val[1], box.val[1], box.val[1]>> ELSE box.val

\* C4: after construction a given boxsize is stored as the 3-vector of its
\* side lengths and the counter is periodic; without a boxsize the stored
\* boxsize is None and the counter is not periodic.
C4_BoxsizePeriodic ==
    pc = "ok" =>
       IF args.boxsize.kind = "none"
       THEN counter.boxsize.kind = "none" /\ ~periodic(counter)
       ELSE /\ counter.boxsize = Box("ndarray", BoxSides(args.boxsize))
            /\ periodic(counter)

ValidFactor(self, factor) ==
    /\ Len(factor.val) = ndim(self)
    /\ \A d \in 1..Len(factor.val) :
          factor.val[d] > 0 /\ shape(self)[d] % factor.val[d] = 0

\* C5: rebin with one factor per dimension, each dividing the dimension's
\* number of bins, succeeds, and leaves in every new bin the sum of the wcounts
\* of the bins merged into it, so that the sum of wcounts is unchanged.
C5_RebinConserves ==
    [][(pc = "ok" /\ last'.op = "rebin" /\ ValidFactor(counter, last'.factor))
         => /\ err' = ""
            /\ RatSum(counter'.wcounts.data) = RatSum(counter.wcounts.data)
            /\ counter'.wcounts =
                  utils_rebin(counter.wcounts,
                              Some([d \in 1..ndim(counter) |->
                                      shape(counter)[d] \div last'.factor.val[d]])).val
      ]_vars

\* C6: the object load returns from the file save wrote holds the wcounts, the
\* norm, the sep (where it is defined) and the catalogs (object counts) of the
\* counter that was saved.
C6_SaveLoadRoundTrip ==
    (last.op = "load" /\ saved = Some(__getstate__(counter).val))
       => /\ {"wcounts", "sep", "norm", "positions1", "positions2"} \subseteq loaded.has
          /\ loaded.obj.wcounts = counter.wcounts
          /\ loaded.obj.sep = counter.sep
          /\ loaded.obj.norm = counter.norm
          /\ loaded.obj.positions1 = counter.positions1
          /\ loaded.obj.positions2 = counter.positions2

\* the coefficient of Pi in the volume of bin (i, j) of the call a
ShellVolume(a, i, j) ==
    LET e == a.edges.arrays
    IN CASE a.mode = "s" -> Rat(4 * (Cube(e[1][i + 1]) - Cube(e[1][i])), 3)
         [] a.mode = "smu" -> Rat(4 * (Cube(e[1][i + 1]) - Cube(e[1][i]))
                                    * (e[2][j + 1] - e[2][j]), 3)
         [] a.mode = "rppi" -> RatInt(2 * (Square(e[1][i + 1]) - Square(e[1][i]))
                                        * (e[2][j + 1] - e[2][j]))
         [] OTHER -> RatInt((Square(e[1][i + 1]) - Square(e[1][i]))
                              * BoxSides(a.boxsize)[CASE a.los = "x" -> 1
                                                      [] a.los = "y" -> 2
                                                      [] OTHER -> 3])

ExpectedAnalytic(a) ==
    LET e == a.edges.arrays
        shp == [d \in 1..Len(e) |-> Len(e[d]) - 1]
        inner == IF Len(shp) = 2 THEN shp[2] ELSE 1
        nrm == IF IsNone(a.n2) THEN a.n1 * (a.n1 - 1) ELSE a.n1 * Get(a.n2)
    IN Arr(shp, [k \in 1..ProdSeq(shp) |->
                   RatDiv(RatMul(RatInt(nrm),
                                 ShellVolume(a, ((k - 1) \div inner) + 1,
                                             ((k - 1) % inner) + 1)),
                          RatInt(ProdSeq(BoxSides(a.boxsize))))], 1)

\* C7: for every mode among s, smu, rppi and rp, edges matching the mode and a
\* given box (a scalar or three side lengths), the analytic counter is
\* constructed, and its wcounts has the edges-derived shape and holds
\* normalization * shell volume / box volume in every bin.
C7_AnalyticCounts ==
    (/\ AnalyticCalled /\ args.mode \in {"s", "smu", "rppi", "rp"}
     /\ ~MismatchedEdges(args) /\ args.boxsize.kind # "none"
     /\ args.los \in {"x", "y", "z"})
       => pc = "ok" /\ counter.wcounts = ExpectedAnalytic(args)

AsymmetricWeights(a) ==
    IF IsNone(a.positions2) THEN ~IsNone(a.weights2)
    ELSE IsNone(a.weights1) # IsNone(a.weights2)

\* C8: a cross-correlation given exactly one of weights1 and weights2, and an
\* autocorrelation given weights2, fail with PairCounterError; in a constructed
\* counter weight_type 'auto' has become None when no weights were given and
\* pair_product otherwise, and weight_type is never 'auto'.
C8_WeightSymmetry ==
    /\ (EngineCalled /\ pc # "returned" /\ AsymmetricWeights(args))
          => (pc = "failed" /\ err = "PairCounterError")
    /\ (EngineCalled /\ pc = "ok")
          => /\ counter.weight_type # "auto"
             /\ args.weight_type = "auto"
                   => counter.weight_type = (IF IsNone(args.weights1) THEN "None"
                                             ELSE "pair_product")

\* a cross-correlation with weights1 alone
C8_Witness ==
    /\ EngineCalled /\ ~IsNone(args.positions2)
    /\ ~IsNone(args.weights1) /\ IsNone(args.weights2)
    /\ args.weight_type = "auto"
    /\ pc = "failed" /\ err = "PairCounterError"

\* an option outside the set enumerated for it
InvalidOption(a) ==
    \/ a.mode \notin Modes
    \/ Lower(a.position_type) \notin {"auto", "rd", "rdd", "xyz"}
    \/ a.weight_type \notin {"None", "auto", "pair_product"}
    \/ a.los \notin {"midpoint", "endpoint", "firstpoint", "x", "y", "z"}
    \/ Lower(a.bin_type) \notin {"lin", "custom", "auto"}
    \/ (~IsNone(a.engine) /\ Lower(Get(a.engine)) # "corrfunc")

\* the documented position types of a mode: rd only for theta, rdd and xyz for
\* any mode
DocumentedPositionTypes(mode) ==
    IF mode = "theta" THEN {"rd", "rdd", "xyz"} ELSE {"rdd", "xyz"}

\* a catalog as position_type t describes it: 2 (rd) or 3 (rdd, xyz) arrays of
\* one length and type
WellFormedInput(t, cat) ==
    /\ Len(cat) = (IF t = "rd" THEN 2 ELSE 3)
    /\ \A i \in 1..Len(cat) : cat[i] = cat[1]

WellFormed(mode, cat) ==
    /\ Len(cat) = (IF mode = "theta" THEN 2 ELSE 3)
    /\ \A i \in 1..Len(cat) : cat[i].len = cat[1].len /\ cat[i].dtype = cat[1].dtype

\* C9: position_type defaults to rd for theta and xyz otherwise; rdd and xyz
\* are accepted for any mode and rd for theta; after validation each catalog
\* holds 2 (theta) or 3 arrays of one length and type; any other position_type
\* fails.
C9_PositionValidation ==
    EngineCalled =>
       LET t == resolve_position_type(args.mode, args.position_type)
           cats == <<args.positions1>> \o args.positions2
       IN /\ (/\ t \in DocumentedPositionTypes(args.mode)
              /\ \A c \in 1..Len(cats) : WellFormedInput(t, cats[c])
              /\ IsNone(args.weights1) /\ IsNone(args.weights2)
              /\ ~InvalidOption(args) /\ ~MismatchedEdges(args))
                => ~(pc = "failed" /\ err = "PairCounterError")
          /\ pc = "ok" => /\ WellFormed(counter.mode, counter.positions1)
                          /\ ~counter.autocorr
                                => WellFormed(counter.mode, counter.positions2)
          /\ (pc # "returned" /\ t \notin DocumentedPositionTypes(args.mode))
                => pc = "failed"

\* C10: a call with a mode, position_type, weight_type, los, bin_type or engine
\* outside its enumerated set fails with PairCounterError, and fails before
\* run() is invoked.
C10_InvalidOptionsFailEarly ==
    (EngineCalled /\ InvalidOption(args))
       => (pc = "failed" /\ err = "PairCounterError" /\ ~ran)

\* a factor rebin must refuse: not one factor per dimension, or a factor that
\* does not divide the number of bins of its dimension
InvalidFactor(self, factor) ==
    \/ Len(factor.val) # ndim(self)
    \/ \E d \in 1..Len(factor.val) :
          factor.val[d] > 0 /\ shape(self)[d] % factor.val[d] # 0

Undefined(x) == x[2] = 0

\* C12: normalized_wcounts() of a counter whose norm is zero raises, and
\* returns no array of infinite or undefined values.
C12_DegenerateNormRaises ==
    (pc = "ok" /\ last.op = "normalized_wcounts" /\ counter.norm = Some(0))
       => /\ err # ""
          /\ \A k \in 1..Len(returned.data) : ~Undefined(returned.data[k])

\* the midpoint of the first-dimension bin of every bin of the counter
MidpointSep(self) ==
    LET shp == shape(self)
        inner == IF Len(shp) = 2 THEN shp[2] ELSE 1
    IN Arr(shp, [k \in 1..NBins(shp) |->
                   midpoints(self.edges[1])[((k - 1) \div inner) + 1]], 0)

\* C13: a constructor call with output_sepavg off that has passed validation
\* and the enumeration returns a counter, and in that counter, as in every
\* analytic counter, sep has the shape of wcounts and holds in every bin
\* (i) or (i, j) the midpoint of bin i of the first dimension.
C13_DefaultSepMidpoint ==
    /\ (EngineCalled /\ ran /\ args.mode \in Modes /\ ~args.output_sepavg)
          => pc = "ok"
    /\ (pc = "ok" /\ (counter.cls = "analytic" \/ ~counter.output_sepavg))
          => /\ counter.sep.shape = counter.wcounts.shape
             /\ counter.sep = MidpointSep(counter)

\* the shape rebin(factor) gives a counter
MergedShape(self, factor) ==
    [d \in 1..ndim(self) |-> shape(self)[d] \div factor.val[d]]

\* the wcounts-weighted mean of sep over the bins merged into each new bin
WeightedMeanSep(self, factor) ==
    LET num == utils_rebin(broadcast(self.sep, self.wcounts, "*").val,
                           Some(MergedShape(self, factor))).val
        den == utils_rebin(self.wcounts, Some(MergedShape(self, factor))).val
    IN [k \in 1..Len(num.data) |-> RatDiv(num.data[k], den.data[k])]

\* C14: wcounts and sep of every constructed counter, and of the counter after
\* every rebin that succeeds, have the shape the shape property derives from
\* edges; a rebin that succeeds leaves the merged shape and, in sep, the
\* wcounts-weighted mean of the merged bins.
C14_ShapeInvariant ==
    [][/\ pc' = "ok" => /\ counter'.wcounts.shape = shape(counter')
                        /\ counter'.sep.shape = shape(counter')
       /\ (pc = "ok" /\ last'.op = "rebin" /\ err' = "")
             => /\ shape(counter') = MergedShape(counter, last'.factor)
                /\ counter'.sep.data = WeightedMeanSep(counter, last'.factor)
      ]_vars

====
